---- MODULE Spec2Model ----
(***************************************************************************)
(* hexsynth: the AudioEngine's loop recorder and pointer-to-voice          *)
(* bookkeeping (AudioEngine.ts) and the Arpeggiator's held-note set        *)
(* (Arpeggiator.ts), as a state machine.                                   *)
(*                                                                         *)
(* Time (Tone.now()) is an integer clock.  Frequencies and volumes are     *)
(* small integers.  A nullable field is the empty tuple (null) or a        *)
(* one-element tuple holding the value.                                    *)
(***************************************************************************)
EXTENDS Integers, Sequences, FiniteSets, TLC

\* ---------------------------------------------------------------- bounds
MaxTime == 2          \* the clock Tone.now() runs over 0..MaxTime
MaxEvents == 1        \* ghost events held by the tracks together
MaxVoices == 2        \* Voice objects constructed for pointers in one run
MaxNotes == 3         \* frequencies the arpeggiator is driven with directly
MaxIndex == 8         \* the arpeggiator's step index runs over 0..MaxIndex
Frac == 4             \* a pitch is a whole number of 1/Frac semitones from the root
MaxSemis == 13        \* pitches run over -MaxSemis..MaxSemis semitones from the root

Null == <<>>
Some(v) == <<v>>

\* new Map()
EmptyMap == [k \in {} |-> <<>>]

\* The engine builds four tracks (for (let i = 0; i < 4; i++)); they are alike
\* and meet only through the shared recorder, masterLoopDuration and the
\* some-track-is-recording test, so the model keeps the first two.
TrackIdx == {0, 1}
\* The inputs of the note calls: two pointers, two pitches, one volume (the
\* volume is only passed on to the gain of the voices).
PointerIds == {1, 2}
Freqs == {1, 2}
Vols == {1}
VoiceIds == 1 .. MaxVoices

\* frequency: number | number[]  -- a single frequency, or a chord of two
\* (getChordFrequencies yields the notes of a chord in ascending order)
FreqLists == {<<f>> : f \in Freqs} \cup
             {c \in Freqs \X Freqs : c[1] < c[2]}

VARIABLES
    tracks,               \* AudioEngine.tracks : LoopTrack[4]
    masterLoopDuration,   \* AudioEngine.masterLoopDuration : number | null
    recorder,             \* AudioEngine.recorder : Tone.Recorder
    transport,            \* Tone.Transport
    now,                  \* Tone.now()
    pending,              \* stopRecording calls suspended at `await`
    voices,               \* AudioEngine.voices : Map<number, Voice[]>
    voiceObj,             \* the Voice objects constructed so far
    activeArpTouches,     \* AudioEngine.activeArpTouches : Map<number, number[]>
    arp,                  \* AudioEngine.arpeggiator : Arpeggiator
    lastCall,             \* the last call, if it was startNote, updateNote or stopNote
    emitted,              \* the onNote calls of the run of ticks in progress
    held,                 \* the pointers started and not stopped since
    thrown,               \* the method whose call last ended in a TypeError
    position,             \* Tone.Transport.position
    musicCall             \* the last call of a function of music.ts, with its result

loopVars == <<tracks, masterLoopDuration, recorder, transport, now, pending>>
voiceVars == <<voices, voiceObj, activeArpTouches, arp, lastCall, emitted, held>>
otherVars == <<thrown, position, musicCall>>
vars == <<tracks, masterLoopDuration, recorder, transport, now, pending,
          voices, voiceObj, activeArpTouches, arp, lastCall, emitted, held, thrown,
          position, musicCall>>

\* ------------------------------------------------------------ loop tracks
NewPlayer == [started |-> FALSE, synced |-> FALSE, mute |-> FALSE, loaded |-> FALSE]

NewTrack == [player |-> NewPlayer, audioBuffer |-> Null, ghostEvents |-> <<>>,
             isRecording |-> FALSE, isPlaying |-> FALSE]

\* this.tracks.some(t => t.isRecording)
SomeTrackRecording == \E t \in TrackIdx : tracks[t].isRecording

\* Tone.Recorder.start(): starting a recorder that is already started is
\* refused (the rejected promise is dropped by startRecording) and the
\* running capture goes on.
RecorderStart(r, t) ==
    IF r.state = "started" THEN r ELSE [state |-> "started", startTime |-> t]

\* Tone.Recorder.stop(): the recorder is idle again.
RecorderStopped == [state |-> "stopped", startTime |-> 0]

\* The duration of the buffer recorder.stop() yields at time t: the time
\* captured since the recorder was started (0 if it was not started).
CapturedDuration(r, t) == IF r.state = "started" THEN t - r.startTime ELSE 0

\* JavaScript's %: the result takes the sign of the dividend.
JsMod(a, m) == IF a >= 0 THEN a % m ELSE 0 - ((0 - a) % m)

\* track.ghostEvents.forEach(e => e.time = e.time - startTime)
NormalizeFirst(evs, startTime) ==
    [k \in DOMAIN evs |-> [evs[k] EXCEPT !.time = @ - startTime]]

\* track.ghostEvents.forEach(e => e.time = (e.time - startTime) % masterLoopDuration)
NormalizeLater(evs, startTime, loopDur) ==
    [k \in DOMAIN evs |-> [evs[k] EXCEPT !.time = JsMod(@ - startTime, loopDur)]]

\* ghost events held by the tracks together
EventCount == Len(tracks[0].ghostEvents) + Len(tracks[1].ghostEvents)

\* The model keeps at most one suspended stopRecording per track.
NoStopPendingOn(i) == \A q \in pending : q.track # i

\* The suspended stopRecording calls after a clearAllLoops: each remembers
\* that the loops were cleared while it was waiting.
SeenClear(pend) == {[q EXCEPT !.cleared = TRUE] : q \in pend}

\* The loop of clearAllLoops over the tracks.
ClearedTracks == [t \in TrackIdx |-> NewTrack]

\* Tone.Transport.stop(); Tone.Transport.cancel()
TransportStopped(tr) == [tr EXCEPT !.state = "stopped"]

\* The transport's position one clock step on: a started transport moves
\* on, and jumps back to loopStart at loopEnd when it loops; a stopped one
\* stays where it is.
Advanced(tr, pos) ==
    IF tr.state # "started" THEN pos
    ELSE IF tr.loop /\ pos + 1 >= tr.loopEnd THEN tr.loopStart
    ELSE pos + 1

\* ---------------------------------------------------------------- voices
\* touchId is the pointer a voice was started for (0 until startNote sets it,
\* and again once the voice is disposed): the closure of the disposal timer
\* belongs to one stopNote(touchId) call.
NewVoice(f, v) == [touchId |-> 0, frequency |-> f, vol |-> v,
                   released |-> 0, disposed |-> 0, timers |-> 0]

\* voice.triggerRelease(); setTimeout(() => voice.dispose(), 200)
\* The gain ramps to 0.  A released Voice is reachable only from its disposal
\* timer and its frequency is never read again: the model drops it.
ReleaseVoices(objs, ids) ==
    [v \in DOMAIN objs |->
        IF v \in ids
        THEN [objs[v] EXCEPT !.released = @ + 1, !.timers = @ + 1,
                             !.vol = 0, !.frequency = 0]
        ELSE objs[v]]

Range(s) == {s[k] : k \in DOMAIN s}

\* every Voice held in the map
MappedVoices == UNION {Range(voices[p]) : p \in DOMAIN voices}

\* releaseAll(): release every mapped voice, schedule its disposal, clear the map
ReleasedAll == ReleaseVoices(voiceObj, MappedVoices)

\* no function of music.ts called yet; the arguments of the call to come
NoCall(x, scaleType, chordType) ==
    [fn |-> "none", scaleType |-> scaleType, chordType |-> chordType,
     pitch |-> x, normalizedIndex |-> 0, out |-> <<>>]

InitEngine ==
    /\ tracks = [t \in TrackIdx |-> NewTrack]
    /\ masterLoopDuration = Null
    /\ recorder = RecorderStopped
    /\ transport = [state |-> "started", loop |-> FALSE, loopStart |-> 0, loopEnd |-> 0]
    /\ now = 0
    /\ pending = {}
    /\ voices = EmptyMap
    /\ voiceObj = <<>>
    /\ activeArpTouches = EmptyMap
    /\ arp = [isEnabled |-> FALSE, activeNotes |-> {}, sortedNotes |-> <<>>,
              pattern |-> "up", index |-> 0]
    /\ lastCall = "other"
    /\ emitted = <<>>
    /\ held = {}
    /\ thrown = Null
    /\ position = 0

Init ==
    /\ InitEngine
    /\ musicCall = NoCall(0, "chromatic", "off")

\* ------------------------------------------------------------ the looper
\* Time passes.  The engine reads the clock only to stamp ghost events and
\* stopRecording calls and only differences of those stamps are used, so the
\* clock is advanced only while the recorder is capturing.
Tick ==
    /\ now < MaxTime
    /\ recorder.state = "started"
    /\ now' = now + 1
    /\ position' = Advanced(transport, position)
    /\ UNCHANGED <<tracks, masterLoopDuration, recorder, transport, pending>>
    /\ UNCHANGED voiceVars
    /\ UNCHANGED <<thrown, musicCall>>

\* startRecording without the test that refuses a second recording
StartRecordingUnguarded(i) ==
    /\ tracks' = [tracks EXCEPT ![i] =
                    [@ EXCEPT !.player = [@ EXCEPT !.started = FALSE, !.synced = FALSE],
                              !.ghostEvents = <<>>,
                              !.isRecording = TRUE]]
    /\ recorder' = RecorderStart(recorder, now)
    /\ UNCHANGED <<masterLoopDuration, transport, now, pending>>
    /\ UNCHANGED voiceVars
    /\ UNCHANGED otherVars

\* startRecording with the test placed after the requested track is prepared
StartRecordingTestsLate(i) ==
    /\ IF SomeTrackRecording
       THEN /\ tracks' = [tracks EXCEPT ![i] =
                            [@ EXCEPT !.player = [@ EXCEPT !.started = FALSE, !.synced = FALSE],
                                      !.ghostEvents = <<>>]]
            /\ UNCHANGED recorder
       ELSE /\ tracks' = [tracks EXCEPT ![i] =
                            [@ EXCEPT !.player = [@ EXCEPT !.started = FALSE, !.synced = FALSE],
                                      !.ghostEvents = <<>>,
                                      !.isRecording = TRUE]]
            /\ recorder' = RecorderStart(recorder, now)
    /\ UNCHANGED <<masterLoopDuration, transport, now, pending>>
    /\ UNCHANGED voiceVars
    /\ UNCHANGED otherVars

StartRecording(i) ==
    /\ IF SomeTrackRecording
       THEN UNCHANGED <<tracks, recorder>>
       ELSE /\ tracks' = [tracks EXCEPT ![i] =
                            [@ EXCEPT !.player = [@ EXCEPT !.started = FALSE, !.synced = FALSE],
                                      !.ghostEvents = <<>>,
                                      !.isRecording = TRUE]]
            /\ recorder' = RecorderStart(recorder, now)
    /\ UNCHANGED <<masterLoopDuration, transport, now, pending>>
    /\ UNCHANGED voiceVars
    /\ UNCHANGED otherVars

RecordTouchEvent(i) ==
    /\ IF tracks[i].isRecording
       THEN /\ EventCount < MaxEvents
            /\ tracks' = [tracks EXCEPT ![i].ghostEvents = Append(@, [time |-> now])]
       ELSE UNCHANGED tracks
    /\ UNCHANGED <<masterLoopDuration, recorder, transport, now, pending>>
    /\ UNCHANGED voiceVars
    /\ UNCHANGED otherVars

\* stopRecording up to `await this.recorder.stop()`
StopRecording(i) ==
    /\ IF ~tracks[i].isRecording
       THEN UNCHANGED <<tracks, recorder, pending>>
       ELSE /\ NoStopPendingOn(i)
            /\ tracks' = [tracks EXCEPT ![i].isRecording = FALSE]
            /\ recorder' = RecorderStopped
            /\ pending' = pending \cup
                  {[track |-> i, now |-> now, duration |-> CapturedDuration(recorder, now),
                    cleared |-> FALSE]}
    /\ UNCHANGED <<masterLoopDuration, transport, now>>
    /\ UNCHANGED voiceVars
    /\ UNCHANGED otherVars

\* the suspended stopRecording of track i
PendingOn(i) == CHOOSE q \in pending : q.track = i

\* the catch block of stopRecording, with a reset of the master duration added
FailRecordingResets(i) ==
    /\ \E q \in pending : q.track = i
    /\ pending' = pending \ {PendingOn(i)}
    /\ masterLoopDuration' = Null
    /\ UNCHANGED <<tracks, recorder, transport, now>>
    /\ UNCHANGED voiceVars
    /\ UNCHANGED otherVars

\* stopRecording when the awaited capture rejects: catch (e) { console.error(...) }
FailRecording(i) ==
    /\ \E q \in pending : q.track = i
    /\ pending' = pending \ {PendingOn(i)}
    /\ UNCHANGED <<tracks, masterLoopDuration, recorder, transport, now>>
    /\ UNCHANGED voiceVars
    /\ UNCHANGED otherVars

\* stopRecording after the await, with Transport.loopEnd left as it was
FinishRecordingKeepsLoopEnd(i) ==
    /\ \E q \in pending : q.track = i
    /\ PendingOn(i).duration > 0
    /\ pending' = pending \ {PendingOn(i)}
    /\ LET p == PendingOn(i)
           startTime == p.now - p.duration
           evs == tracks[i].ghostEvents
           loopDur == IF masterLoopDuration = Null THEN p.duration
                      ELSE masterLoopDuration[1]
       IN  /\ masterLoopDuration' = Some(loopDur)
           /\ tracks' = [tracks EXCEPT ![i] =
                  [@ EXCEPT !.ghostEvents =
                                IF masterLoopDuration = Null
                                THEN NormalizeFirst(evs, startTime)
                                ELSE NormalizeLater(evs, startTime, loopDur),
                            !.audioBuffer = Some(p.duration),
                            !.player = [@ EXCEPT !.loaded = TRUE, !.synced = TRUE,
                                                 !.started = TRUE],
                            !.isPlaying = TRUE]]
           /\ transport' = [transport EXCEPT !.state = "started", !.loop = TRUE]
    /\ UNCHANGED <<recorder, now>>
    /\ UNCHANGED voiceVars
    /\ UNCHANGED otherVars

\* stopRecording after `await buffer.loaded`, the capture having succeeded.
\* An empty capture (duration 0) does not decode: it ends in FailRecording.
FinishRecording(i) ==
    /\ \E q \in pending : q.track = i
    /\ PendingOn(i).duration > 0
    /\ pending' = pending \ {PendingOn(i)}
    /\ LET p == PendingOn(i)
           startTime == p.now - p.duration
           evs == tracks[i].ghostEvents
       IN  IF masterLoopDuration = Null
           THEN /\ masterLoopDuration' = Some(p.duration)
                /\ tracks' = [tracks EXCEPT ![i] =
                       [@ EXCEPT !.ghostEvents = NormalizeFirst(evs, startTime),
                                 !.audioBuffer = Some(p.duration),
                                 !.player = [@ EXCEPT !.loaded = TRUE, !.synced = TRUE,
                                                      !.started = TRUE],
                                 !.isPlaying = TRUE]]
                /\ transport' = [state |-> "started", loop |-> TRUE,
                                 loopStart |-> 0, loopEnd |-> p.duration]
           ELSE /\ UNCHANGED masterLoopDuration
                /\ tracks' = [tracks EXCEPT ![i] =
                       [@ EXCEPT !.ghostEvents =
                                     NormalizeLater(evs, startTime, masterLoopDuration[1]),
                                 !.audioBuffer = Some(p.duration),
                                 !.player = [@ EXCEPT !.loaded = TRUE, !.synced = TRUE,
                                                      !.started = TRUE],
                                 !.isPlaying = TRUE]]
                /\ transport' = [transport EXCEPT !.state = "started"]
    /\ UNCHANGED <<recorder, now>>
    /\ UNCHANGED voiceVars
    /\ UNCHANGED otherVars

\* track.player.buffer is the player's ToneAudioBuffer object, which exists
\* whether or not anything was loaded into it.
PlayerBufferTruthy(pl) == TRUE

\* the body of toggleTrackPlayback, on the track it is given
ToggledTrack(track) ==
    IF track.isPlaying
    THEN [track EXCEPT !.player = [@ EXCEPT !.mute = TRUE], !.isPlaying = FALSE]
    ELSE IF PlayerBufferTruthy(track.player)
    THEN [track EXCEPT !.player = [@ EXCEPT !.mute = FALSE], !.isPlaying = TRUE]
    ELSE track

ToggleTrackPlayback(i) ==
    /\ tracks' = [tracks EXCEPT ![i] = ToggledTrack(@)]
    /\ UNCHANGED <<masterLoopDuration, recorder, transport, now, pending>>
    /\ UNCHANGED voiceVars
    /\ UNCHANGED otherVars

\* clearAllLoops with Transport.pause() in the place of Transport.stop():
\* the transport halts where it is
ClearAllLoopsPauses ==
    /\ masterLoopDuration' = Null
    /\ transport' = TransportStopped(transport)
    /\ tracks' = ClearedTracks
    /\ pending' = SeenClear(pending)
    /\ UNCHANGED <<recorder, now>>
    /\ UNCHANGED voiceVars
    /\ UNCHANGED otherVars

\* Transport.stop() halts the transport and puts its position back to 0.
ClearAllLoops ==
    /\ masterLoopDuration' = Null
    /\ transport' = TransportStopped(transport)
    /\ position' = 0
    /\ tracks' = ClearedTracks
    /\ pending' = SeenClear(pending)
    /\ UNCHANGED <<recorder, now>>
    /\ UNCHANGED voiceVars
    /\ UNCHANGED <<thrown, musicCall>>

\* reset without the closing Tone.Transport.start()
ResetLeavesTransportStopped ==
    /\ voiceObj' = ReleasedAll
    /\ voices' = EmptyMap
    /\ masterLoopDuration' = Null
    /\ tracks' = ClearedTracks
    /\ transport' = TransportStopped(transport)
    /\ lastCall' = "other"
    /\ UNCHANGED held
    /\ emitted' = <<>>
    /\ position' = 0
    /\ pending' = SeenClear(pending)
    /\ UNCHANGED <<recorder, now, activeArpTouches, arp>>
    /\ UNCHANGED <<thrown, musicCall>>

\* reset(): releaseAll(); clearAllLoops(); ...; Transport.stop(); position = 0; start()
Reset ==
    /\ voiceObj' = ReleasedAll
    /\ voices' = EmptyMap
    /\ masterLoopDuration' = Null
    /\ tracks' = ClearedTracks
    /\ transport' = [TransportStopped(transport) EXCEPT !.state = "started"]
    /\ lastCall' = "other"
    /\ UNCHANGED held
    /\ emitted' = <<>>
    /\ position' = 0
    /\ pending' = SeenClear(pending)
    /\ UNCHANGED <<recorder, now, activeArpTouches, arp>>
    /\ UNCHANGED <<thrown, musicCall>>

NextLoop ==
    \/ Tick
    \/ \E i \in TrackIdx : StartRecording(i)
    \/ \E i \in TrackIdx : RecordTouchEvent(i)
    \/ \E i \in TrackIdx : StopRecording(i)
    \/ \E i \in TrackIdx : FinishRecording(i)
    \/ \E i \in TrackIdx : FailRecording(i)
    \/ \E i \in TrackIdx : ToggleTrackPlayback(i)
    \/ ClearAllLoops
    \/ Reset

SpecLoop == Init /\ [][NextLoop]_vars

\* -------------------------------------------- calls that name no track
\* Indices outside the tracks array.
NoTrackIdx == {0 - 1, 4}

\* const track = this.tracks[trackIndex]: undefined (Null) outside the array
TrackAt(i) == IF i \in DOMAIN tracks THEN Some(tracks[i]) ELSE Null

\* startRecording(i) with no track at i: the some-track-is-recording test
\* returns first; otherwise track.player.stop() reads a property of undefined
\* and the async method ends in a rejected promise.
StartRecordingNoTrack(i) ==
    /\ TrackAt(i) = Null
    /\ thrown' = IF SomeTrackRecording THEN thrown ELSE Some("startRecording")
    /\ UNCHANGED <<position, musicCall>>
    /\ UNCHANGED loopVars
    /\ UNCHANGED voiceVars

\* recordTouchEvent(i, ...) with no track at i: track.isRecording throws
RecordTouchEventNoTrack(i) ==
    /\ TrackAt(i) = Null
    /\ thrown' = Some("recordTouchEvent")
    /\ UNCHANGED <<position, musicCall>>
    /\ UNCHANGED loopVars
    /\ UNCHANGED voiceVars

\* stopRecording(i) with no track at i: track.isRecording throws before the
\* try block, and the async method ends in a rejected promise
StopRecordingNoTrack(i) ==
    /\ TrackAt(i) = Null
    /\ thrown' = Some("stopRecording")
    /\ UNCHANGED <<position, musicCall>>
    /\ UNCHANGED loopVars
    /\ UNCHANGED voiceVars

\* toggleTrackPlayback(i) with no track at i: track.isPlaying throws
ToggleTrackPlaybackNoTrack(i) ==
    /\ TrackAt(i) = Null
    /\ thrown' = Some("toggleTrackPlayback")
    /\ UNCHANGED <<position, musicCall>>
    /\ UNCHANGED loopVars
    /\ UNCHANGED voiceVars

\* The looper called with indices inside and outside the array.
NextIndex ==
    \/ Tick
    \/ \E i \in TrackIdx : StartRecording(i)
    \/ \E i \in TrackIdx : StopRecording(i)
    \/ \E i \in TrackIdx : FinishRecording(i)
    \/ \E i \in TrackIdx : ToggleTrackPlayback(i)
    \/ \E i \in NoTrackIdx : StartRecordingNoTrack(i)
    \/ \E i \in NoTrackIdx : RecordTouchEventNoTrack(i)
    \/ \E i \in NoTrackIdx : StopRecordingNoTrack(i)
    \/ \E i \in NoTrackIdx : ToggleTrackPlaybackNoTrack(i)

SpecIndex == Init /\ [][NextIndex]_vars

\* ---------------------------------------------------------- arpeggiator
\* Array.from(set).sort((a, b) => a - b)
RECURSIVE SortedSeq(_)
SortedSeq(S) ==
    IF S = {} THEN <<>>
    ELSE LET m == CHOOSE x \in S : \A y \in S : x <= y
         IN  <<m>> \o SortedSeq(S \ {m})

\* Arpeggiator.updateSortedNotes
UpdateSortedNotes(a) == [a EXCEPT !.sortedNotes = SortedSeq(a.activeNotes)]

\* addNote pushing onto the list instead of rebuilding it
AddNoteUnsorted(a, f) ==
    [a EXCEPT !.activeNotes = @ \cup {f}, !.sortedNotes = Append(@, f)]

\* Arpeggiator.addNote
AddNote(a, f) == UpdateSortedNotes([a EXCEPT !.activeNotes = @ \cup {f}])

\* removeNote as splice(indexOf(f), 1): a frequency that is not held has
\* index -1, and splice(-1, 1) removes the last element
RemoveNoteSplice(a, f) ==
    IF f \in a.activeNotes \/ a.sortedNotes = <<>>
    THEN UpdateSortedNotes([a EXCEPT !.activeNotes = @ \ {f}])
    ELSE UpdateSortedNotes([a EXCEPT !.activeNotes = @ \ {a.sortedNotes[Len(a.sortedNotes)]}])

\* Arpeggiator.removeNote
RemoveNote(a, f) == UpdateSortedNotes([a EXCEPT !.activeNotes = @ \ {f}])

\* setEnabled that only sets the flag
SetEnabledKeepsNotes(a, enabled) == [a EXCEPT !.isEnabled = enabled]

\* Arpeggiator.setEnabled
SetEnabled(a, enabled) ==
    IF enabled
    THEN [a EXCEPT !.isEnabled = TRUE]
    ELSE [a EXCEPT !.isEnabled = FALSE, !.activeNotes = {}, !.sortedNotes = <<>>]

\* freqs.forEach(f => this.arpeggiator.addNote(f))
RECURSIVE AddNotes(_, _)
AddNotes(a, freqs) ==
    IF freqs = <<>> THEN a ELSE AddNotes(AddNote(a, Head(freqs)), Tail(freqs))

\* oldFreqs.forEach(f => this.arpeggiator.removeNote(f))
RECURSIVE RemoveNotes(_, _)
RemoveNotes(a, freqs) ==
    IF freqs = <<>> THEN a ELSE RemoveNotes(RemoveNote(a, Head(freqs)), Tail(freqs))

\* ------------------------------------------------------- pointer voices
\* Map.set
MapSet(m, k, v) == [x \in DOMAIN m \cup {k} |-> IF x = k THEN v ELSE m[x]]

\* Map.delete
MapDelete(m, k) == [x \in DOMAIN m \ {k} |-> m[x]]

\* Map.has
Has(m, k) == k \in DOMAIN m

\* voices.forEach((voice, i) => { if (i < freqs.length) voice.setNote(freqs[i], volume) })
SetNotes(objs, ids, freqs, vol) ==
    [v \in DOMAIN objs |->
        IF \E k \in DOMAIN ids : ids[k] = v /\ k <= Len(freqs)
        THEN LET k == CHOOSE j \in DOMAIN ids : ids[j] = v
             IN  [objs[v] EXCEPT !.frequency = freqs[k], !.vol = vol]
        ELSE objs[v]]

\* the arpeggiator branch of updateNote
ArpAfterUpdate(a, touches, id, freqs) ==
    AddNotes(IF Has(touches, id) THEN RemoveNotes(a, touches[id]) ELSE a, freqs)

\* the body of updateNote
DoUpdateNote(id, freqs, vol) ==
    /\ IF arp.isEnabled
       THEN /\ arp' = ArpAfterUpdate(arp, activeArpTouches, id, freqs)
            /\ activeArpTouches' = MapSet(activeArpTouches, id, freqs)
            /\ UNCHANGED <<voices, voiceObj>>
       ELSE /\ voiceObj' = IF Has(voices, id)
                           THEN SetNotes(voiceObj, voices[id], freqs, vol)
                           ELSE voiceObj
            /\ UNCHANGED <<voices, activeArpTouches, arp>>
    /\ UNCHANGED loopVars
    /\ UNCHANGED otherVars

UpdateNote(id, freqs, vol) ==
    /\ DoUpdateNote(id, freqs, vol)
    /\ lastCall' = "updateNote"
    /\ UNCHANGED held
    /\ emitted' = <<>>

\* startNote allocating a single voice, for the first frequency only
StartNoteSingleVoice(id, freqs, vol) ==
    /\ IF Has(voices, id)
       THEN DoUpdateNote(id, freqs, vol)
       ELSE IF arp.isEnabled
       THEN /\ arp' = AddNotes(arp, freqs)
            /\ activeArpTouches' = MapSet(activeArpTouches, id, freqs)
            /\ UNCHANGED <<voices, voiceObj>>
            /\ UNCHANGED loopVars
            /\ UNCHANGED otherVars
       ELSE /\ Len(voiceObj) + 1 <= MaxVoices
            /\ voiceObj' = Append(voiceObj, [NewVoice(freqs[1], vol) EXCEPT !.touchId = id])
            /\ voices' = MapSet(voices, id, <<Len(voiceObj) + 1>>)
            /\ UNCHANGED <<activeArpTouches, arp>>
            /\ UNCHANGED loopVars
            /\ UNCHANGED otherVars
    /\ lastCall' = "startNote"
    /\ held' = held \cup {id}
    /\ emitted' = <<>>

StartNote(id, freqs, vol) ==
    /\ IF Has(voices, id)
       THEN DoUpdateNote(id, freqs, vol)
       ELSE IF arp.isEnabled
       THEN /\ arp' = AddNotes(arp, freqs)
            /\ activeArpTouches' = MapSet(activeArpTouches, id, freqs)
            /\ UNCHANGED <<voices, voiceObj>>
            /\ UNCHANGED loopVars
            /\ UNCHANGED otherVars
       ELSE /\ Len(voiceObj) + Len(freqs) <= MaxVoices
            /\ voiceObj' = voiceObj \o
                   [k \in DOMAIN freqs |-> [NewVoice(freqs[k], vol) EXCEPT !.touchId = id]]
            /\ voices' = MapSet(voices, id, [k \in DOMAIN freqs |-> Len(voiceObj) + k])
            /\ UNCHANGED <<activeArpTouches, arp>>
            /\ UNCHANGED loopVars
            /\ UNCHANGED otherVars
    /\ lastCall' = "startNote"
    /\ held' = held \cup {id}
    /\ emitted' = <<>>

\* stopNote without this.voices.delete(touchId)
StopNoteKeepsEntry(id) ==
    /\ IF arp.isEnabled
       THEN /\ arp' = IF Has(activeArpTouches, id)
                      THEN RemoveNotes(arp, activeArpTouches[id])
                      ELSE arp
            /\ activeArpTouches' = MapDelete(activeArpTouches, id)
       ELSE UNCHANGED <<activeArpTouches, arp>>
    /\ IF Has(voices, id)
       THEN /\ voiceObj' = ReleaseVoices(voiceObj, Range(voices[id]))
            /\ UNCHANGED voices
       ELSE UNCHANGED <<voices, voiceObj>>
    /\ lastCall' = "stopNote"
    /\ held' = held \ {id}
    /\ emitted' = <<>>
    /\ UNCHANGED loopVars
    /\ UNCHANGED otherVars

StopNote(id) ==
    /\ IF arp.isEnabled
       THEN /\ arp' = IF Has(activeArpTouches, id)
                      THEN RemoveNotes(arp, activeArpTouches[id])
                      ELSE arp
            /\ activeArpTouches' = MapDelete(activeArpTouches, id)
       ELSE UNCHANGED <<activeArpTouches, arp>>
    /\ IF Has(voices, id)
       THEN /\ voiceObj' = ReleaseVoices(voiceObj, Range(voices[id]))
            /\ voices' = MapDelete(voices, id)
       ELSE UNCHANGED <<voices, voiceObj>>
    /\ lastCall' = "stopNote"
    /\ held' = held \ {id}
    /\ emitted' = <<>>
    /\ UNCHANGED loopVars
    /\ UNCHANGED otherVars

\* releaseAll(), also reached through setVoiceType
ReleaseAll ==
    /\ voiceObj' = ReleasedAll
    /\ voices' = EmptyMap
    /\ UNCHANGED <<activeArpTouches, arp>>
    /\ lastCall' = "other"
    /\ UNCHANGED held
    /\ emitted' = <<>>
    /\ UNCHANGED loopVars
    /\ UNCHANGED otherVars

\* AudioEngine.setArpEnabled
SetArpEnabled(enabled) ==
    /\ arp' = SetEnabled(arp, enabled)
    /\ UNCHANGED <<voices, voiceObj, activeArpTouches>>
    /\ lastCall' = "other"
    /\ UNCHANGED held
    /\ emitted' = <<>>
    /\ UNCHANGED loopVars
    /\ UNCHANGED otherVars

\* a disposal timer that also deletes the map entry of the pointer it was set for
DisposeTimerDeletesEntry(v) ==
    /\ v \in DOMAIN voiceObj
    /\ voiceObj[v].timers > 0
    /\ voiceObj' = [voiceObj EXCEPT ![v].timers = @ - 1, ![v].disposed = @ + 1,
                                    ![v].touchId = 0]
    /\ voices' = MapDelete(voices, voiceObj[v].touchId)
    /\ UNCHANGED <<activeArpTouches, arp>>
    /\ lastCall' = "other"
    /\ UNCHANGED held
    /\ emitted' = <<>>
    /\ UNCHANGED loopVars
    /\ UNCHANGED otherVars

\* the callback of setTimeout(() => voice.dispose(), 200) runs
DisposeTimer(v) ==
    /\ v \in DOMAIN voiceObj
    /\ voiceObj[v].timers > 0
    /\ voiceObj' = [voiceObj EXCEPT ![v].timers = @ - 1, ![v].disposed = @ + 1,
                                    ![v].touchId = 0]
    /\ UNCHANGED <<voices, activeArpTouches, arp>>
    /\ lastCall' = "other"
    /\ UNCHANGED held
    /\ emitted' = <<>>
    /\ UNCHANGED loopVars
    /\ UNCHANGED otherVars

NextVoice ==
    \/ \E id \in PointerIds, freqs \in FreqLists, vol \in Vols : StartNote(id, freqs, vol)
    \/ \E id \in PointerIds, freqs \in FreqLists, vol \in Vols : UpdateNote(id, freqs, vol)
    \/ \E id \in PointerIds : StopNote(id)
    \/ ReleaseAll
    \/ \E enabled \in BOOLEAN : SetArpEnabled(enabled)
    \/ \E v \in VoiceIds : DisposeTimer(v)
    \/ Reset

SpecVoice == Init /\ [][NextVoice]_vars

\* The timers of the event loop run: a scheduled disposal is not postponed forever.
FairSpecVoice == SpecVoice /\ \A v \in VoiceIds : WF_vars(DisposeTimer(v))

\* ------------------------------------------------- the arpeggiator alone
\* ArpPattern
Patterns == {"up", "down", "upDown", "random", "chord"}

\* the frequencies of the direct calls
ArpFreqs == 1 .. MaxNotes

\* emitted keeps the most recent LogLen calls: one more than the longest cycle
LogLen == 2 * MaxNotes - 1

\* Arpeggiator.clear
Clear(a) == UpdateSortedNotes([a EXCEPT !.activeNotes = {}])

\* Arpeggiator.setPattern
SetPattern(a, p) == [a EXCEPT !.pattern = p]

\* this.onNote(noteToPlay): one call, with a single frequency
NoteCall(f) == [isArray |-> FALSE, freqs |-> <<f>>]

\* this.onNote(noteToPlay as any): one call, with the array of held notes
ChordCall(notes) == [isArray |-> TRUE, freqs |-> notes]

\* Arpeggiator.tick yields the arpeggiator after the tick and the onNote
\* calls made.  Indices are those of the code (from 0); a sequence is read at
\* index + 1.

\* case 'up' with the index advanced twice
tickUpSkipping(a) ==
    LET n == Len(a.sortedNotes)
        i == a.index % n
    IN  [arp |-> [a EXCEPT !.index = i + 2],
         calls |-> <<NoteCall(a.sortedNotes[i + 1])>>]

\* case 'up'
tickUp(a) ==
    LET n == Len(a.sortedNotes)
        i == a.index % n
    IN  [arp |-> [a EXCEPT !.index = i + 1],
         calls |-> <<NoteCall(a.sortedNotes[i + 1])>>]

\* case 'down' without the reduction of the index modulo the length: a
\* position outside the list reads undefined (0 here, which is no frequency)
tickDownUnreduced(a) ==
    LET n == Len(a.sortedNotes)
        downIndex == n - 1 - a.index
    IN  [arp |-> [a EXCEPT !.index = @ + 1],
         calls |-> <<NoteCall(IF downIndex \in 0 .. n - 1
                              THEN a.sortedNotes[downIndex + 1]
                              ELSE 0)>>]

\* case 'down'
tickDown(a) ==
    LET n == Len(a.sortedNotes)
        i == a.index % n
        downIndex == n - 1 - i
    IN  [arp |-> [a EXCEPT !.index = i + 1],
         calls |-> <<NoteCall(a.sortedNotes[downIndex + 1])>>]

\* case 'upDown' with a cycle of 2 * length that plays both end notes twice
tickUpDownRepeating(a) ==
    LET n == Len(a.sortedNotes) IN
    IF n = 1
    THEN [arp |-> a, calls |-> <<NoteCall(a.sortedNotes[1])>>]
    ELSE LET cycleLen == n * 2
             normIndex == a.index % cycleLen
             k == IF normIndex < n
                  THEN normIndex
                  ELSE n - 1 - (normIndex - n)
         IN  [arp |-> [a EXCEPT !.index = @ + 1],
              calls |-> <<NoteCall(a.sortedNotes[k + 1])>>]

\* case 'upDown'
tickUpDown(a) ==
    LET n == Len(a.sortedNotes) IN
    IF n = 1
    THEN [arp |-> a, calls |-> <<NoteCall(a.sortedNotes[1])>>]
    ELSE LET cycleLen == (n * 2) - 2
             normIndex == a.index % cycleLen
             k == IF normIndex < n
                  THEN normIndex
                  ELSE n - 1 - (normIndex - n + 1)
         IN  [arp |-> [a EXCEPT !.index = @ + 1],
              calls |-> <<NoteCall(a.sortedNotes[k + 1])>>]

\* case 'random'; r is Math.floor(Math.random() * this.sortedNotes.length)
tickRandom(a, r) ==
    [arp |-> a, calls |-> <<NoteCall(a.sortedNotes[r + 1])>>]

\* case 'chord' with one onNote call per held note
tickChordSplit(a) ==
    [arp |-> a, calls |-> [k \in DOMAIN a.sortedNotes |-> NoteCall(a.sortedNotes[k])]]

\* case 'chord'
tickChord(a) ==
    [arp |-> a, calls |-> <<ChordCall(a.sortedNotes)>>]

\* Arpeggiator.tick
tick(a, r) ==
    IF ~a.isEnabled \/ Len(a.sortedNotes) = 0
    THEN [arp |-> a, calls |-> <<>>]
    ELSE CASE a.pattern = "up" -> tickUp(a)
           [] a.pattern = "down" -> tickDown(a)
           [] a.pattern = "upDown" -> tickUpDown(a)
           [] a.pattern = "random" -> tickRandom(a, r)
           [] a.pattern = "chord" -> tickChord(a)

\* the most recent LogLen entries of a log
LastCalls(log) ==
    IF Len(log) <= LogLen THEN log ELSE SubSeq(log, Len(log) - LogLen + 1, Len(log))

\* the Tone.Loop callback: this.tick(time)
ArpTick ==
    /\ \E r \in 0 .. MaxNotes - 1 :
          /\ r = 0 \/ r < Len(arp.sortedNotes)
          /\ tick(arp, r).arp.index <= MaxIndex
          /\ arp' = tick(arp, r).arp
          /\ emitted' = LastCalls(emitted \o tick(arp, r).calls)
    /\ UNCHANGED <<voices, voiceObj, activeArpTouches, lastCall, held>>
    /\ UNCHANGED loopVars
    /\ UNCHANGED otherVars

\* a direct call of Arpeggiator.addNote
ArpAddNote(f) ==
    /\ arp' = AddNote(arp, f)
    /\ emitted' = <<>>
    /\ UNCHANGED <<voices, voiceObj, activeArpTouches, lastCall, held>>
    /\ UNCHANGED loopVars
    /\ UNCHANGED otherVars

\* a direct call of Arpeggiator.removeNote
ArpRemoveNote(f) ==
    /\ arp' = RemoveNote(arp, f)
    /\ emitted' = <<>>
    /\ UNCHANGED <<voices, voiceObj, activeArpTouches, lastCall, held>>
    /\ UNCHANGED loopVars
    /\ UNCHANGED otherVars

\* a direct call of Arpeggiator.clear
ArpClear ==
    /\ arp' = Clear(arp)
    /\ emitted' = <<>>
    /\ UNCHANGED <<voices, voiceObj, activeArpTouches, lastCall, held>>
    /\ UNCHANGED loopVars
    /\ UNCHANGED otherVars

\* AudioEngine.setArpPattern
SetArpPattern(p) ==
    /\ arp' = SetPattern(arp, p)
    /\ emitted' = <<>>
    /\ UNCHANGED <<voices, voiceObj, activeArpTouches, lastCall, held>>
    /\ UNCHANGED loopVars
    /\ UNCHANGED otherVars

NextArp ==
    \/ \E f \in ArpFreqs : ArpAddNote(f)
    \/ \E f \in ArpFreqs : ArpRemoveNote(f)
    \/ ArpClear
    \/ \E enabled \in BOOLEAN : SetArpEnabled(enabled)
    \/ \E p \in Patterns : SetArpPattern(p)
    \/ ArpTick

SpecArp == Init /\ [][NextArp]_vars

\* ------------------------------------- the engine's calls and the ticks
\* The arpeggiator as the AudioEngine drives it, with the loop ticking.  The
\* disposal timers of released voices are left out: they neither read nor
\* write the arpeggiator or the maps.
NextArpEngine ==
    \/ \E id \in PointerIds, freqs \in FreqLists, vol \in Vols : StartNote(id, freqs, vol)
    \/ \E id \in PointerIds, freqs \in FreqLists, vol \in Vols : UpdateNote(id, freqs, vol)
    \/ \E id \in PointerIds : StopNote(id)
    \/ ReleaseAll
    \/ \E enabled \in BOOLEAN : SetArpEnabled(enabled)
    \/ ArpTick

SpecArpEngine == Init /\ [][NextArpEngine]_vars

\* ------------------------------------------------- notes, loops and reset
\* Held notes and a recorded loop together, with releaseAll and reset.  The
\* loop is recorded on the first track: reset treats the tracks alike.
NextReset ==
    \/ \E id \in PointerIds, freqs \in FreqLists, vol \in Vols : StartNote(id, freqs, vol)
    \/ ReleaseAll
    \/ Tick
    \/ StartRecording(0)
    \/ StopRecording(0)
    \/ FinishRecording(0)
    \/ Reset

SpecReset == Init /\ [][NextReset]_vars

\* ---------------------------------------------------------------- music.ts
\* A frequency f is held as its distance from rootFreq in units of 1/Frac
\* semitone: the whole number x with f = rootFreq * 2^(x / (12 * Frac)).
\* 12 * Math.log2(f / rootFreq) is then x / Frac semitones, and
\* rootFreq * Math.pow(2, n / 12) is the pitch Frac * n.
Pitches == (0 - MaxSemis * Frac) .. (MaxSemis * Frac)

ScaleTypes == {"chromatic", "major", "minor", "dorian", "phrygian", "lydian",
               "mixolydian", "aeolian", "locrian", "pentatonicMajor",
               "pentatonicMinor", "blues"}

ChordTypes == {"off", "triad", "sus2", "sus4", "maj7", "m7", "dom7", "dim",
               "aug", "maj9", "m9"}

\* SCALES[scaleType].intervals
SCALES ==
    [st \in ScaleTypes |->
        CASE st = "chromatic" -> <<0, 1, 2, 3, 4, 5, 6, 7, 8, 9, 10, 11>>
          [] st = "major" -> <<0, 2, 4, 5, 7, 9, 11>>
          [] st = "minor" -> <<0, 2, 3, 5, 7, 8, 10>>
          [] st = "dorian" -> <<0, 2, 3, 5, 7, 9, 10>>
          [] st = "phrygian" -> <<0, 1, 3, 5, 7, 8, 10>>
          [] st = "lydian" -> <<0, 2, 4, 6, 7, 9, 11>>
          [] st = "mixolydian" -> <<0, 2, 4, 5, 7, 9, 10>>
          [] st = "aeolian" -> <<0, 2, 3, 5, 7, 8, 10>>
          [] st = "locrian" -> <<0, 1, 3, 5, 6, 8, 10>>
          [] st = "pentatonicMajor" -> <<0, 2, 4, 7, 9>>
          [] st = "pentatonicMinor" -> <<0, 3, 5, 7, 10>>
          [] st = "blues" -> <<0, 3, 5, 6, 7, 10>>]

\* CHORD_INTERVALS
CHORD_INTERVALS ==
    [ct \in ChordTypes \ {"off", "triad"} |->
        CASE ct = "maj7" -> <<0, 4, 7, 11>>
          [] ct = "m7" -> <<0, 3, 7, 10>>
          [] ct = "dom7" -> <<0, 4, 7, 10>>
          [] ct = "sus2" -> <<0, 2, 7>>
          [] ct = "sus4" -> <<0, 5, 7>>
          [] ct = "aug" -> <<0, 4, 8>>
          [] ct = "dim" -> <<0, 3, 6>>
          [] ct = "maj9" -> <<0, 4, 7, 11, 14>>
          [] ct = "m9" -> <<0, 3, 7, 10, 14>>]

Abs(n) == IF n < 0 THEN 0 - n ELSE n

\* Math.floor(x / 12), x in units of 1/Frac semitone
FloorOctave(x) == x \div (12 * Frac)

\* Math.round of a value in units of 1/Frac: the nearest whole number, a
\* half going up (towards +Infinity)
MathRound(x) == (2 * x + Frac) \div (2 * Frac)

\* const noteIndex = Math.round(semitonesFromRoot % 12);
\* const normalizedIndex = noteIndex < 0 ? noteIndex + 12 : noteIndex;
NormalizedIndex(x) ==
    LET noteIndex == MathRound(JsMod(x, 12 * Frac))
    IN  IF noteIndex < 0 THEN noteIndex + 12 ELSE noteIndex

\* let minDiff = Infinity
Infinity == 1000

\* for (const interval of intervals) { if (diff < minDiff) { ... } }
\* from position k on (counted from 0): the position of the first interval
\* whose distance to n is the least
RECURSIVE NearestFrom(_, _, _, _, _)
NearestFrom(intervals, n, k, minDiff, nearest) ==
    IF k >= Len(intervals) THEN nearest
    ELSE LET diff == Abs(n - intervals[k + 1])
         IN  IF diff < minDiff
             THEN NearestFrom(intervals, n, k + 1, diff, k)
             ELSE NearestFrom(intervals, n, k + 1, minDiff, nearest)

\* getNearestScaleNote(semitonesFromRoot, scaleType): whole semitones.
\* nearestInterval starts at 0, which is also intervals[0] of every scale.
getNearestScaleNote(x, scaleType) ==
    LET intervals == SCALES[scaleType]
        octave == FloorOctave(x)
        idx == NearestFrom(intervals, NormalizedIndex(x), 0, Infinity, 0)
    IN  octave * 12 + intervals[idx + 1]

\* quantizeFrequency returning the scale note one octave up
quantizeFrequencyOctaveUp(x, scaleType) ==
    IF scaleType = "chromatic" THEN x
    ELSE Frac * (getNearestScaleNote(x, scaleType) + 12)

\* quantizeFrequency(freq, rootFreq, scaleType)
quantizeFrequency(x, scaleType) ==
    IF scaleType = "chromatic" THEN x
    ELSE Frac * getNearestScaleNote(x, scaleType)

\* the diatonic triad of getChordFrequencies (chordOffsets = [0, 2, 4])
diatonicTriad(x, scaleType) ==
    LET quantizedSemitones == getNearestScaleNote(x, scaleType)
        intervals == SCALES[scaleType]
        currentOctave == quantizedSemitones \div 12
        \* Math.round of a whole number
        baseNoteIndex == JsMod(quantizedSemitones, 12)
        normBaseMod == JsMod(JsMod(baseNoteIndex, 12) + 12, 12)
        intervalIndex == NearestFrom(intervals, normBaseMod, 0, 100, 0 - 1)
        chordOffsets == <<0, 2, 4>>
    IN  IF intervalIndex = 0 - 1 THEN <<x>>
        ELSE [c \in DOMAIN chordOffsets |->
                 LET totalIndex == intervalIndex + chordOffsets[c]
                     effectiveIntervalIndex == totalIndex % Len(intervals)
                     octaveShift == totalIndex \div Len(intervals)
                     scaleInterval == intervals[effectiveIntervalIndex + 1]
                     totalSemitones == scaleInterval + (currentOctave + octaveShift) * 12
                 IN  Frac * totalSemitones]

\* getChordFrequencies(baseFreq, rootFreq, scaleType, chordType)
getChordFrequencies(x, scaleType, chordType) ==
    IF chordType = "off" THEN <<x>>
    ELSE IF chordType \in DOMAIN CHORD_INTERVALS
    THEN [c \in DOMAIN CHORD_INTERVALS[chordType] |->
             x + Frac * CHORD_INTERVALS[chordType][c]]
    ELSE IF scaleType = "chromatic"
    THEN IF chordType = "triad"
         THEN <<x, x + Frac * 4, x + Frac * 7>>
         ELSE <<x>>
    ELSE IF chordType = "triad" THEN diatonicTriad(x, scaleType)
    ELSE <<x>>

\* The arguments are drawn before the call: a pitch, a scale and a chord type.
InitMusic ==
    /\ InitEngine
    /\ \E x \in Pitches, st \in ScaleTypes, ct \in ChordTypes :
          musicCall = NoCall(x, st, ct)

CallGetNearestScaleNote ==
    /\ musicCall.fn = "none"
    /\ musicCall' = [musicCall EXCEPT
                        !.fn = "getNearestScaleNote",
                        !.normalizedIndex = NormalizedIndex(musicCall.pitch),
                        !.out = <<getNearestScaleNote(musicCall.pitch, musicCall.scaleType)>>]
    /\ UNCHANGED <<thrown, position>>
    /\ UNCHANGED loopVars
    /\ UNCHANGED voiceVars

CallQuantizeFrequency ==
    /\ musicCall.fn = "none"
    /\ musicCall' = [musicCall EXCEPT
                        !.fn = "quantizeFrequency",
                        !.out = <<quantizeFrequency(musicCall.pitch, musicCall.scaleType)>>]
    /\ UNCHANGED <<thrown, position>>
    /\ UNCHANGED loopVars
    /\ UNCHANGED voiceVars

CallGetChordFrequencies ==
    /\ musicCall.fn = "none"
    /\ musicCall' = [musicCall EXCEPT
                        !.fn = "getChordFrequencies",
                        !.out = getChordFrequencies(musicCall.pitch, musicCall.scaleType,
                                                    musicCall.chordType)]
    /\ UNCHANGED <<thrown, position>>
    /\ UNCHANGED loopVars
    /\ UNCHANGED voiceVars

NextMusic ==
    \/ CallGetNearestScaleNote
    \/ CallQuantizeFrequency
    \/ CallGetChordFrequencies

SpecMusic == InitMusic /\ [][NextMusic]_vars

\* ================================================================ claims

\* ---- C1: in every reachable state at most one track has isRecording = true.
C1_AtMostOneRecording ==
    Cardinality({t \in TrackIdx : tracks[t].isRecording}) <= 1

\* C1 witness: a track is recording while the other track's stopRecording is
\* still suspended, so a second startRecording was accepted after the first
\* take was stopped.
C1_Witness ==
    \E t \in TrackIdx, q \in pending : q.track # t /\ tracks[t].isRecording

\* ---- C2: once masterLoopDuration is non-null its value does not change until
\* clearAllLoops or reset sets it back to null, and it becomes non-null only as
\* the duration of the recording whose finalization completes first.
C2_MasterDurationSetOnce ==
    [][ /\ masterLoopDuration # Null =>
              \/ masterLoopDuration' = masterLoopDuration
              \/ ClearAllLoops
              \/ Reset
        /\ (masterLoopDuration = Null /\ masterLoopDuration' # Null) =>
              \E q \in pending : FinishRecording(q.track) /\ masterLoopDuration' = Some(q.duration)
      ]_vars

\* C2 witness: the master duration is set and both tracks hold a finished
\* recording, so a later finalization ran with the duration already fixed.
C2_Witness ==
    /\ masterLoopDuration # Null
    /\ \A t \in TrackIdx : tracks[t].audioBuffer # Null

\* ---- C3 (as claimed): whenever masterLoopDuration is non-null every ghost
\* event of every track has 0 <= time < masterLoopDuration.
C3_GhostTimesInLoop ==
    masterLoopDuration # Null =>
        \A t \in TrackIdx : \A k \in DOMAIN tracks[t].ghostEvents :
            /\ 0 <= tracks[t].ghostEvents[k].time
            /\ tracks[t].ghostEvents[k].time < masterLoopDuration[1]

\* ---- C4 (as claimed): no pointer id is a key of both voices and
\* activeArpTouches.
C4_OneOwnerPerPointer ==
    DOMAIN voices \cap DOMAIN activeArpTouches = {}

\* ---- C5 (as claimed): the step that enables the arpeggiator moves the
\* frequencies of every pointer holding voices into the held-note set, releases
\* those voices and removes them from the voices map.
C5_EnableMigratesHeldPointers ==
    [][(~arp.isEnabled /\ arp'.isEnabled) =>
          \A id \in DOMAIN voices :
              /\ ~Has(voices', id)
              /\ \A k \in DOMAIN voices[id] :
                    /\ voiceObj'[voices[id][k]].released = 1
                    /\ voiceObj[voices[id][k]].frequency \in arp'.activeNotes
      ]_vars

\* ---- C6 (as claimed): startNote for a pointer that already owns voices
\* leaves the pointer's voices as they were, constructs no Voice, and sets the
\* target frequency and volume of the existing voices to the arguments.
C6_DuplicateStartUpdatesVoice ==
    [][\A id \in PointerIds, freqs \in FreqLists, vol \in Vols :
          (Has(voices, id) /\ StartNote(id, freqs, vol)) =>
              /\ voices' = voices
              /\ DOMAIN voiceObj' = DOMAIN voiceObj
              /\ \A k \in DOMAIN voices[id] : k <= Len(freqs) =>
                    /\ voiceObj'[voices[id][k]].frequency = freqs[k]
                    /\ voiceObj'[voices[id][k]].vol = vol
      ]_vars

\* ---- C7 (as claimed): with the arpeggiator enabled, a second startNote for
\* a pointer registered with the arpeggiator leaves the held-note set and the
\* ownership record as updateNote would: the pointer's previous frequencies
\* are removed and the new ones registered.
C7_DuplicateArpStartIsUpdate ==
    [][\A id \in PointerIds, freqs \in FreqLists, vol \in Vols :
          (arp.isEnabled /\ Has(activeArpTouches, id) /\ StartNote(id, freqs, vol)) =>
              /\ arp' = ArpAfterUpdate(arp, activeArpTouches, id, freqs)
              /\ activeArpTouches' = MapSet(activeArpTouches, id, freqs)
      ]_vars

\* ---- C8 (as claimed): updateNote and stopNote for a pointer id that is in
\* neither map change neither map nor the held-note set.
C8_UnknownPointerIsNoOp ==
    [][\A id \in PointerIds :
          (/\ ~Has(voices, id)
           /\ ~Has(activeArpTouches, id)
           /\ \/ StopNote(id)
              \/ \E freqs \in FreqLists, vol \in Vols : UpdateNote(id, freqs, vol))
          => UNCHANGED <<voices, activeArpTouches, arp>>
      ]_vars

\* ---- C9 (as claimed): stopNote for a pointer with an arpeggiator
\* registration removes its frequencies from the held-note set and deletes the
\* registration; afterwards the id is in neither map.
C9_StopClearsRegistration ==
    [][\A id \in PointerIds :
          (Has(activeArpTouches, id) /\ StopNote(id)) =>
              /\ ~Has(activeArpTouches', id)
              /\ ~Has(voices', id)
              /\ Range(activeArpTouches[id]) \cap arp'.activeNotes = {}
      ]_vars

\* ---- C10: a pointer's voice is released exactly when it leaves the voices
\* map and never twice; it is disposed at most once and never before its
\* release; every disposal still owed is a pending timer; and a released
\* voice is eventually disposed.
C10_Teardown ==
    /\ [](\A v \in DOMAIN voiceObj :
            /\ voiceObj[v].released = (IF v \in MappedVoices THEN 0 ELSE 1)
            /\ voiceObj[v].disposed <= voiceObj[v].released
            /\ voiceObj[v].disposed + voiceObj[v].timers = voiceObj[v].released)
    /\ \A v \in VoiceIds :
          (v \in DOMAIN voiceObj /\ voiceObj[v].released = 1)
              ~> (v \in DOMAIN voiceObj /\ voiceObj[v].disposed = 1)

\* C10 witness: one voice was released and disposed while another, released
\* later, still waits for its timer.
C10_Witness ==
    \E v, w \in DOMAIN voiceObj :
        /\ voiceObj[v].released = 1 /\ voiceObj[v].disposed = 1
        /\ voiceObj[w].released = 1 /\ voiceObj[w].disposed = 0 /\ voiceObj[w].timers = 1

\* ---- C11: stopNote removes the pointer's entry from the voices map in the
\* call itself, and a disposal timer that fires disposes only its own voice,
\* which is no longer in the map: it leaves the map and every other voice as
\* they are, also when its pointer id owns newly started voices.
C11_ReuseBeforeTeardown ==
    [][ /\ \A id \in PointerIds : StopNote(id) => ~Has(voices', id)
        /\ \A v \in VoiceIds : DisposeTimer(v) =>
              /\ v \notin MappedVoices
              /\ voices' = voices
              /\ \A w \in DOMAIN voiceObj \ {v} : voiceObj'[w] = voiceObj[w]
      ]_vars

\* C11 witness: the disposal timer of a released voice is pending while the
\* pointer id it was started for owns a new, unreleased voice.
C11_Witness ==
    \E v \in DOMAIN voiceObj :
        /\ voiceObj[v].timers = 1
        /\ Has(voices, voiceObj[v].touchId)
        /\ \A w \in Range(voices[voiceObj[v].touchId]) :
              w # v /\ voiceObj[w].released = 0

\* ---- C12: with the arpeggiator disabled, startNote for a pointer without
\* voices constructs one new attacking voice per frequency, at the given
\* volume, and maps the pointer to them; with the arpeggiator enabled it
\* constructs none; and the voices a pointer owns stay the same voices through
\* every step other than stopNote for it, releaseAll and reset.
C12_OneVoicePerFrequency ==
    [][ /\ \A id \in PointerIds, freqs \in FreqLists, vol \in Vols :
              (~Has(voices, id) /\ StartNote(id, freqs, vol)) =>
                  IF arp.isEnabled
                  THEN voiceObj' = voiceObj /\ voices' = voices
                  ELSE /\ Len(voiceObj') = Len(voiceObj) + Len(freqs)
                       /\ Has(voices', id)
                       /\ Len(voices'[id]) = Len(freqs)
                       /\ \A k \in DOMAIN freqs :
                             /\ voices'[id][k] = Len(voiceObj) + k
                             /\ voiceObj'[voices'[id][k]].frequency = freqs[k]
                             /\ voiceObj'[voices'[id][k]].vol = vol
                             /\ voiceObj'[voices'[id][k]].released = 0
        /\ \A id \in DOMAIN voices :
              \/ Has(voices', id) /\ voices'[id] = voices[id]
              \/ StopNote(id)
              \/ ReleaseAll
              \/ Reset
      ]_vars

\* C12 witness: a pointer started with a chord of two still owns two voices
\* after an updateNote that passed a single frequency (both voices now carry
\* frequency 2, which no chord assigns to the first voice).
C12_Witness ==
    \E id \in DOMAIN voices :
        /\ lastCall = "updateNote"
        /\ ~arp.isEnabled
        /\ Len(voices[id]) = 2
        /\ voiceObj[voices[id][1]].frequency = 2
        /\ voiceObj[voices[id][2]].frequency = 2

\* ---- C13: after any sequence of addNote, removeNote, clear and setEnabled
\* calls the list sortedNotes holds exactly the frequencies of the held set,
\* each once, in strictly ascending order.
C13_SortedNotesExact ==
    /\ Len(arp.sortedNotes) = Cardinality(arp.activeNotes)
    /\ Range(arp.sortedNotes) = arp.activeNotes
    /\ \A i, j \in DOMAIN arp.sortedNotes :
          i < j => arp.sortedNotes[i] < arp.sortedNotes[j]

\* C13 witness: the lowest and the highest frequency are held without the one
\* between them, and the list has the two in order.
C13_Witness ==
    /\ arp.activeNotes = {1, MaxNotes}
    /\ arp.sortedNotes = <<1, MaxNotes>>

\* ---- C14: in every state, addNote of a held frequency and removeNote of a
\* frequency that is not held leave the arpeggiator (held set and sorted list)
\* as it is, and addNote(f) twice gives what addNote(f) once gives.
C14_AddRemoveIdempotent ==
    \A f \in ArpFreqs :
        /\ f \in arp.activeNotes => AddNote(arp, f) = arp
        /\ f \notin arp.activeNotes => RemoveNote(arp, f) = arp
        /\ AddNote(AddNote(arp, f), f) = AddNote(arp, f)

\* C14 witness: frequencies 2 and 3 are held and 1 is not, so addNote(2) adds
\* a held frequency and removeNote(1) removes one that is not held.
C14_Witness ==
    /\ arp.activeNotes = {2, 3}
    /\ arp.sortedNotes = <<2, 3>>
    /\ arp.isEnabled

\* ---- C15: setEnabled(false) leaves the held set and its list empty in the
\* same step; in every state the engine reaches with the arpeggiator disabled
\* the held set is empty; and a tick of a disabled arpeggiator, whatever the
\* pattern, makes no onNote call and changes nothing.
C15_DisabledIsSilent ==
    /\ [](~arp.isEnabled =>
            /\ arp.activeNotes = {}
            /\ arp.sortedNotes = <<>>
            /\ \A p \in Patterns, r \in 0 .. MaxNotes - 1 :
                  tick(SetPattern(arp, p), r) =
                      [arp |-> SetPattern(arp, p), calls |-> <<>>])
    /\ [][ /\ SetArpEnabled(FALSE) =>
                  arp'.activeNotes = {} /\ arp'.sortedNotes = <<>>
           /\ (~arp.isEnabled /\ ArpTick) =>
                  arp' = arp /\ emitted' = emitted
         ]_vars

\* C15 witness: the arpeggiator is disabled and its held set empty after it
\* was enabled with a pointer registered (the record is still there) and
\* ticked (the step index has advanced).
C15_Witness ==
    /\ ~arp.isEnabled
    /\ arp.activeNotes = {}
    /\ arp.index > 0
    /\ DOMAIN activeArpTouches # {}

\* ---- C16: with pattern up (down) and N notes held, in a run of ticks during
\* which nothing else is called every tick makes one call with one held
\* note, each call is followed by the call with the next higher (lower) held
\* note, wrapping around, and any N consecutive calls cover the held set;
\* this from whatever step index the run started at.
C16_UpDownOrder ==
    LET n == Len(arp.sortedNotes)
        note(k) == emitted[k].freqs[1]
        step(pos) == IF arp.pattern = "up"
                     THEN (pos % n) + 1
                     ELSE ((pos + n - 2) % n) + 1
    IN  (arp.pattern \in {"up", "down"} /\ n >= 1) =>
            \A j \in DOMAIN emitted :
                /\ ~emitted[j].isArray
                /\ Len(emitted[j].freqs) = 1
                /\ j < Len(emitted) =>
                      \E pos \in 1 .. n :
                          /\ note(j) = arp.sortedNotes[pos]
                          /\ note(j + 1) = arp.sortedNotes[step(pos)]
                /\ j + n - 1 <= Len(emitted) =>
                      {note(k) : k \in j .. (j + n - 1)} = arp.activeNotes

\* C16 witness: three notes are held, the pattern is down, and a full log of
\* consecutive ticks was emitted in a run that began in the middle of the
\* cycle (with note 2), the step index having been left there by earlier ticks.
C16_Witness ==
    /\ arp.pattern = "down"
    /\ arp.sortedNotes = <<1, 2, 3>>
    /\ Len(emitted) = LogLen
    /\ emitted[1].freqs = <<2>>

\* ---- C17: with pattern upDown and N >= 2 notes held, in a run of ticks
\* during which nothing else is called the calls repeat with period 2N - 2,
\* any 2N - 2 consecutive calls have the lowest note once and the highest note
\* once, and no two consecutive calls have the same note; with one note held
\* every tick calls with that note.
C17_UpDownCycle ==
    LET n == Len(arp.sortedNotes)
        c == 2 * n - 2
        note(k) == emitted[k].freqs[1]
        times(f, j) == Cardinality({k \in j .. (j + c - 1) : note(k) = f})
    IN  (arp.pattern = "upDown" /\ n >= 1) =>
            \A j \in DOMAIN emitted :
                /\ ~emitted[j].isArray
                /\ Len(emitted[j].freqs) = 1
                /\ note(j) \in arp.activeNotes
                /\ (n >= 2 /\ j + c <= Len(emitted)) => note(j + c) = note(j)
                /\ (n >= 2 /\ j + c - 1 <= Len(emitted)) =>
                      /\ times(arp.sortedNotes[1], j) = 1
                      /\ times(arp.sortedNotes[n], j) = 1
                /\ (n >= 2 /\ j < Len(emitted)) => note(j) # note(j + 1)

\* C17 witness: three notes are held, the pattern is upDown, and a full log
\* of consecutive ticks starts at the highest note: 3 2 1 2 3, which runs
\* through the lowest note and over the end of a cycle.
C17_Witness ==
    /\ arp.pattern = "upDown"
    /\ arp.sortedNotes = <<1, 2, 3>>
    /\ Len(emitted) = LogLen
    /\ emitted[1].freqs = <<3>>

\* ---- C18: with pattern chord, a tick of the enabled arpeggiator with notes
\* held makes exactly one onNote call, whose argument is the array of all held
\* notes; every call logged under the pattern is such a call.
C18_ChordIsOneGroup ==
    /\ []((arp.pattern = "chord") =>
            \A j \in DOMAIN emitted :
                /\ emitted[j].isArray
                /\ emitted[j].freqs = arp.sortedNotes
                /\ Range(emitted[j].freqs) = arp.activeNotes)
    /\ [][(/\ arp.isEnabled
            /\ arp.pattern = "chord"
            /\ arp.sortedNotes # <<>>
            /\ ArpTick) =>
               /\ emitted' = LastCalls(Append(emitted, ChordCall(arp.sortedNotes)))
               /\ arp' = arp
         ]_vars

\* C18 witness: three notes are held, the pattern is chord, and two ticks in
\* a row have each made one call with the three notes.
C18_Witness ==
    /\ arp.pattern = "chord"
    /\ arp.sortedNotes = <<1, 2, 3>>
    /\ Len(emitted) = 2
    /\ emitted[2] = ChordCall(<<1, 2, 3>>)

\* ---- C19: a startRecording call made while some track is recording changes
\* nothing (no track, not the recorder, the master duration, the transport or
\* the suspended calls), and a track starts recording only in the step of a
\* startRecording call for it made while no track was recording.
C19_SecondStartRejected ==
    [][ /\ \A i \in TrackIdx :
              (SomeTrackRecording /\ StartRecording(i)) =>
                  UNCHANGED <<tracks, recorder, masterLoopDuration, transport, pending>>
        /\ \A t \in TrackIdx :
              (~tracks[t].isRecording /\ tracks'[t].isRecording) =>
                  ~SomeTrackRecording /\ StartRecording(t)
      ]_vars

\* C19 witness: one track is recording and has a ghost event while the other
\* track holds a finished recording that is playing: the state a rejected
\* startRecording for either track has to leave as it is.
C19_Witness ==
    \E t, u \in TrackIdx :
        /\ t # u
        /\ tracks[t].isRecording
        /\ Len(tracks[t].ghostEvents) = 1
        /\ tracks[u].audioBuffer # Null
        /\ tracks[u].isPlaying
        /\ tracks[u].player.started

\* ---- C20: when a stopRecording whose capture succeeded finishes while
\* masterLoopDuration is null, masterLoopDuration becomes the duration of the
\* captured buffer and the transport is running and set to loop from 0 to
\* that duration.
C20_FirstStopArmsLoop ==
    [][\A i \in TrackIdx :
          (masterLoopDuration = Null /\ FinishRecording(i)) =>
              \E q \in pending :
                  /\ q.track = i
                  /\ q.duration > 0
                  /\ masterLoopDuration' = Some(q.duration)
                  /\ tracks'[i].audioBuffer = Some(q.duration)
                  /\ transport' = [state |-> "started", loop |-> TRUE,
                                   loopStart |-> 0, loopEnd |-> q.duration]
      ]_vars

\* C20 witness: a recording of two clock units was the first to finish: the
\* master duration is 2, the transport loops over [0, 2) and the track plays
\* its buffer of that length.
C20_Witness ==
    /\ masterLoopDuration = Some(2)
    /\ transport = [state |-> "started", loop |-> TRUE, loopStart |-> 0, loopEnd |-> 2]
    /\ \E t \in TrackIdx :
          /\ tracks[t].audioBuffer = Some(2)
          /\ tracks[t].isPlaying
          /\ tracks[t].player.synced

\* ---- C21 (as claimed): when a stopRecording whose capture succeeded
\* finishes, its track is not recording, has the buffer attached, and plays
\* it audibly in sync with the transport: the playing flag is set and the
\* player is started, synced and not muted.
C21_FinishedTrackPlays ==
    [][\A i \in TrackIdx :
          FinishRecording(i) =>
              /\ ~tracks'[i].isRecording
              /\ tracks'[i].audioBuffer # Null
              /\ tracks'[i].isPlaying
              /\ tracks'[i].player.started
              /\ tracks'[i].player.synced
              /\ ~tracks'[i].player.mute
      ]_vars

\* ---- C22 (as claimed): when the capture of a stopRecording fails, the error
\* is swallowed and the track ends not recording, without a buffer and not
\* playing; a masterLoopDuration that was null before is null afterwards.
C22_FailedCaptureLeavesTrackEmpty ==
    [][\A i \in TrackIdx :
          FailRecording(i) =>
              /\ ~tracks'[i].isRecording
              /\ tracks'[i].audioBuffer = Null
              /\ ~tracks'[i].isPlaying
              /\ (masterLoopDuration = Null => masterLoopDuration' = Null)
      ]_vars

\* ---- C23 (as claimed): startRecording, stopRecording, recordTouchEvent and
\* toggleTrackPlayback called with an index that names no track raise no
\* error and change no track or loop state.
C23_NoTrackIsNoOp ==
    [][\A i \in NoTrackIdx :
          (\/ StartRecordingNoTrack(i)
           \/ RecordTouchEventNoTrack(i)
           \/ StopRecordingNoTrack(i)
           \/ ToggleTrackPlaybackNoTrack(i))
          => /\ thrown' = thrown
             /\ UNCHANGED <<tracks, masterLoopDuration, recorder, transport, pending>>
      ]_vars

\* ---- C24 (as claimed): toggleTrackPlayback only mutes or unmutes its track:
\* the player stays started and synced as it was, and masterLoopDuration, the
\* transport, the track's buffer and ghost events and every other track are
\* unchanged; toggling a track that has a buffer twice brings back both its
\* isPlaying flag and its player's mute flag.
C24_ToggleOnlyMutes ==
    /\ [](\A i \in TrackIdx :
            tracks[i].audioBuffer # Null =>
                LET twice == ToggledTrack(ToggledTrack(tracks[i]))
                IN  /\ twice.isPlaying = tracks[i].isPlaying
                    /\ twice.player.mute = tracks[i].player.mute)
    /\ [][\A i \in TrackIdx :
            ToggleTrackPlayback(i) =>
                /\ tracks'[i].player.started = tracks[i].player.started
                /\ tracks'[i].player.synced = tracks[i].player.synced
                /\ tracks'[i].player.loaded = tracks[i].player.loaded
                /\ tracks'[i].audioBuffer = tracks[i].audioBuffer
                /\ tracks'[i].ghostEvents = tracks[i].ghostEvents
                /\ \A j \in TrackIdx \ {i} : tracks'[j] = tracks[j]
                /\ UNCHANGED <<masterLoopDuration, transport>>
       ]_vars

\* ---- C25: when clearAllLoops returns, masterLoopDuration is null, the
\* transport is stopped and back at position 0, and every track has no
\* buffer, no ghost events, is not recording and is not playing.
C25_ClearAllLoopsClears ==
    [][ClearAllLoops =>
          /\ masterLoopDuration' = Null
          /\ transport'.state = "stopped"
          /\ position' = 0
          /\ \A t \in TrackIdx :
                /\ tracks'[t].audioBuffer = Null
                /\ ~tracks'[t].player.loaded
                /\ tracks'[t].ghostEvents = <<>>
                /\ ~tracks'[t].isRecording
                /\ ~tracks'[t].isPlaying
      ]_vars

\* clearAllLoops has run on a looper that had finished a recording (the
\* transport, set to loop by that recording, is stopped and at 0).
C25_Witness ==
    /\ transport.state = "stopped"
    /\ transport.loop
    /\ position = 0
    /\ masterLoopDuration = Null
    /\ tracks = ClearedTracks

\* ---- C26: after releaseAll, and after reset, the voices map is empty and
\* every voice it held has been released once more and has one more
\* disposal timer; reset also leaves every track cleared, masterLoopDuration
\* null and the transport started at position 0.
C26_ResetReleasesAndClears ==
    [][/\ (ReleaseAll \/ Reset) =>
             /\ voices' = EmptyMap
             /\ \A v \in MappedVoices :
                   /\ voiceObj'[v].released = voiceObj[v].released + 1
                   /\ voiceObj'[v].timers = voiceObj[v].timers + 1
       /\ Reset =>
             /\ tracks' = ClearedTracks
             /\ masterLoopDuration' = Null
             /\ transport'.state = "started"
             /\ position' = 0
      ]_vars

\* reset has run with a voice held and a loop recorded: the voice is
\* released with its timer armed, the map and the tracks are empty, and the
\* transport (set to loop by the recording) runs from 0.
C26_Witness ==
    /\ voices = EmptyMap
    /\ \E v \in DOMAIN voiceObj : voiceObj[v].released = 1 /\ voiceObj[v].timers = 1
    /\ tracks = ClearedTracks
    /\ masterLoopDuration = Null
    /\ transport.loop
    /\ transport.state = "started"
    /\ position = 0
    /\ now > 0

\* ---- C27: quantization is idempotent: for every scale and every pitch
\* (a whole number of 1/Frac semitones above or below the root), quantizing
\* the result of quantizeFrequency returns that result.
C27_QuantizeIdempotent ==
    musicCall.fn = "quantizeFrequency" =>
        quantizeFrequency(musicCall.out[1], musicCall.scaleType) = musicCall.out[1]

\* a pitch below the root and off the scale has been quantized under a
\* scale other than the chromatic one, and moved
C27_Witness ==
    /\ musicCall.fn = "quantizeFrequency"
    /\ musicCall.scaleType = "pentatonicMinor"
    /\ musicCall.pitch < 0
    /\ musicCall.pitch % Frac # 0
    /\ musicCall.out[1] # musicCall.pitch

\* the pitches of the degrees of a scale, in every octave near the inputs
DegreePitches(scaleType) ==
    {Frac * n : n \in {m \in (0 - MaxSemis - 24) .. (MaxSemis + 24) :
                          m % 12 \in Range(SCALES[scaleType])}}

\* ---- C28 (as claimed): quantizeFrequency returns the pitch itself under
\* the chromatic scale; under every other scale the returned pitch is a
\* degree of the scale and no degree, in any octave, is closer to the input.
C28_QuantizeSnapsToNearest ==
    musicCall.fn = "quantizeFrequency" =>
        IF musicCall.scaleType = "chromatic"
        THEN musicCall.out[1] = musicCall.pitch
        ELSE /\ musicCall.out[1] \in DegreePitches(musicCall.scaleType)
             /\ \A d \in DegreePitches(musicCall.scaleType) :
                   Abs(d - musicCall.pitch) >= Abs(musicCall.out[1] - musicCall.pitch)

\* ---- C29 (as claimed): the position within the octave that
\* getNearestScaleNote searches with is round(s) mod 12, a whole number
\* from 0 to 11, for every pitch s.
C29_IndexInOctave ==
    musicCall.fn = "getNearestScaleNote" =>
        /\ musicCall.normalizedIndex \in 0 .. 11
        /\ musicCall.normalizedIndex = MathRound(musicCall.pitch) % 12

\* the degrees of the scale of the last call that lie strictly between two pitches
DegreesBetween(a, b) ==
    {d \in DegreePitches(musicCall.scaleType) : a < d /\ d < b}

\* ---- C30 (as claimed): for chord type 'triad' under a scale other than
\* the chromatic one, getChordFrequencies returns exactly three pitches: the
\* degree of the scale nearest to the base note, then the degrees two and
\* four scale steps above it (one degree skipped each time, into the next
\* octave where the scale wraps); all three are degrees of the scale and
\* they ascend strictly.
C30_DiatonicTriad ==
    (/\ musicCall.fn = "getChordFrequencies"
     /\ musicCall.chordType = "triad"
     /\ musicCall.scaleType # "chromatic") =>
        /\ Len(musicCall.out) = 3
        /\ \A k \in 1 .. 3 : musicCall.out[k] \in DegreePitches(musicCall.scaleType)
        /\ \A d \in DegreePitches(musicCall.scaleType) :
              Abs(d - musicCall.pitch) >= Abs(musicCall.out[1] - musicCall.pitch)
        /\ Cardinality(DegreesBetween(musicCall.out[1], musicCall.out[2])) = 1
        /\ Cardinality(DegreesBetween(musicCall.out[2], musicCall.out[3])) = 1
        /\ musicCall.out[1] < musicCall.out[2]
        /\ musicCall.out[2] < musicCall.out[3]

\* ---- C36 (as claimed): in every reachable state no track is both
\* recording and playing.
C36_NotRecordingAndPlaying ==
    \A i \in TrackIdx : tracks[i].isRecording => ~tracks[i].isPlaying

\* ---- C37 (as claimed): in every reachable state a track that is playing
\* has a recorded buffer attached.
C37_PlayingHasBuffer ==
    \A i \in TrackIdx : tracks[i].isPlaying => tracks[i].audioBuffer # Null

\* ---- C38 (as claimed): in every reachable state the player of a track
\* that is playing is not muted.
C38_PlayingIsUnmuted ==
    \A i \in TrackIdx : tracks[i].isPlaying => ~tracks[i].player.mute

\* ---- C39 (as claimed): in every reachable state the transport is set to
\* loop, with loopEnd equal to masterLoopDuration, exactly when
\* masterLoopDuration is not null.
C39_LoopArmedIffMaster ==
    /\ transport.loop <=> masterLoopDuration # Null
    /\ masterLoopDuration # Null => transport.loopEnd = masterLoopDuration[1]

\* ---- C34 (as claimed): clearAllLoops (or reset) is not undone by a
\* stopRecording that was suspended when it ran: if nothing has been
\* recorded since (masterLoopDuration is null, no track has a buffer or is
\* playing), that is still so when the suspended stopRecording completes,
\* whether its capture succeeds or fails.
C34_ClearNotUndone ==
    [][\A i \in TrackIdx :
          (/\ FinishRecording(i) \/ FailRecording(i)
           /\ PendingOn(i).cleared
           /\ masterLoopDuration = Null
           /\ \A t \in TrackIdx : tracks[t].audioBuffer = Null /\ ~tracks[t].isPlaying)
          => /\ masterLoopDuration' = Null
             /\ \A t \in TrackIdx : tracks'[t].audioBuffer = Null /\ ~tracks'[t].isPlaying
      ]_vars

\* ---- C35 (as claimed): the time stamps of ghost events are converted only
\* by the stopRecording that ends their own recording: a stopRecording that
\* completes while its track is recording again (a startRecording was
\* accepted during its suspension) leaves the events of the new recording
\* as they are.  A second conversion of an event can only come about this
\* way, the events being emptied by every accepted startRecording.
C35_NormalizedByOwnStop ==
    [][\A i \in TrackIdx :
          (FinishRecording(i) /\ tracks[i].isRecording)
          => tracks'[i].ghostEvents = tracks[i].ghostEvents
      ]_vars

\* the frequencies the ownership map records for the registered pointers
RegisteredFreqs == UNION {Range(activeArpTouches[p]) : p \in DOMAIN activeArpTouches}

\* ---- C31 (as claimed): while the arpeggiator is enabled, its held-note
\* set is the union of the frequency lists the ownership map records for the
\* registered pointers; a frequency two pointers hold stays held when one of
\* them is stopped or moved away.
C31_HeldNotesAreRegistered ==
    arp.isEnabled => arp.activeNotes = RegisteredFreqs

\* ---- C32 (as claimed): quiescence.  When every pointer that was started
\* has been stopped, the voices map, the ownership map and the held-note set
\* are empty, and a tick of the arpeggiator emits nothing.
C32_Quiescence ==
    held = {} =>
        /\ voices = EmptyMap
        /\ activeArpTouches = EmptyMap
        /\ arp.activeNotes = {}
        /\ tick(arp, 0).calls = <<>>

\* ---- C33: every frequency a tick emits is in the held-note set at that
\* tick, for every pattern, whatever ticks, addNote, removeNote and
\* setPattern calls came before (the step index is shared by the patterns
\* and the set may have shrunk below it).
C33_EmittedNotesAreHeld ==
    \A r \in 0 .. MaxNotes - 1 :
        (r = 0 \/ r < Len(arp.sortedNotes)) =>
            LET calls == tick(arp, r).calls
            IN  \A k \in DOMAIN calls : Range(calls[k].freqs) \subseteq arp.activeNotes

\* a tick of the upDown pattern has just emitted a held note with the step
\* index beyond the length of the list of two notes and beyond its cycle
C33_Witness ==
    /\ arp.isEnabled
    /\ arp.pattern = "upDown"
    /\ Len(arp.sortedNotes) = 2
    /\ arp.index > 4
    /\ emitted # <<>>
    /\ Range(emitted[Len(emitted)].freqs) \subseteq arp.activeNotes

====
